---- MODULE Spec2Model ----
(***************************************************************************)
(* GenericRepo[T] (package model): the generic repository over a gorm      *)
(* handle.  The store is one table of rows keyed by primary key; the       *)
(* handle "db" is the connection pool (autocommit), the handle "tx" is the *)
(* transaction opened by Transaction(fn) while fn runs.                    *)
(***************************************************************************)
EXTENDS Integers, Sequences, FiniteSets, TLC

\* ------------------------------------------------------------------ bounds
MaxId == 2
MaxPage == 2
MaxPageSize == 2

Ids == 1..MaxId
Vals == {"a", "b"}
Absent == "absent"
Clean == "clean"
Tomb == "tomb"

\* ------------------------------------------------------------ error values
\* errspec codes (package errspec is not part of the sources at hand).
ErrNotFoundCode == 10404
ErrRecordNotExistCode == 20404
ErrQueryParamEmptyCode == 20400
CustomCode == ErrNotFoundCode + 1

MkErr(kind, code, name, cause) ==
    [kind |-> kind, code |-> code, name |-> name, cause |-> cause]

Nil == MkErr("nil", 0, "nil", "none")
\* gorm.ErrRecordNotFound, the store's zero-rows sentinel
ErrRecordNotFound == MkErr("store", 0, "gorm.ErrRecordNotFound", "none")
\* any other store error: a lost connection, a violated constraint
ErrConn == MkErr("store", 0, "driver: bad connection", "none")
ErrDuplicatedKey == MkErr("store", 0, "duplicated key", "none")
\* an error made by the closure handed to Transaction
ErrApp == MkErr("app", 0, "fn failed", "none")

\* errspec.ErrRecordNotExist.New(ctx) / errspec.ErrQueryParamEmpty.New(ctx)
ErrRecordNotExistNew == MkErr("errorx", ErrRecordNotExistCode, "ErrRecordNotExist", "none")
ErrQueryParamEmptyNew == MkErr("errorx", ErrQueryParamEmptyCode, "ErrQueryParamEmpty", "none")
\* (*errorx.Error).Wrap(err): keeps err as the cause
Wrap(e, err) == [e EXCEPT !.cause = err.name]
\* errors.Unwrap: the wrapped cause, Nil when there is none
Unwrap(e) ==
    IF e.cause = "none" THEN Nil ELSE MkErr("store", 0, e.cause, "none")

\* ----------------------------------------------------------- query options
\* Get's id parameter is `any`; NilId stands for the nil interface value.
NilId == 0

Modifier(kind, n) == [kind |-> kind, n |-> n]

QueryOptions(cond, args, opts, preloads) ==
    [isNil |-> FALSE, Condition |-> cond, Args |-> args, Opts |-> opts,
     Preloads |-> preloads]
\* a nil *QueryOptions
NilOpts ==
    [isNil |-> TRUE, Condition |-> "", Args |-> <<>>, Opts |-> <<>>,
     Preloads |-> <<>>]

CondArgs ==
    {<<"", <<>>>>, <<"", <<"a">>>>}
        \cup {<<"val = ?", <<v>>>> : v \in Vals}
ModifierLists ==
    {<<>>, <<Modifier("limit", 1)>>, <<Modifier("limit", MaxPageSize + 1)>>,
     <<Modifier("offset", 1)>>, <<Modifier("order", 1)>>}
PreloadLists == {<<>>, <<"Items">>}

\* every option value the read operations are driven with
AllOpts ==
    {NilOpts} \cup
    {QueryOptions(ca[1], ca[2], ms, ps) :
        ca \in CondArgs, ms \in ModifierLists, ps \in PreloadLists}
\* ------------------------------------------------------------ gorm queries
\* the statement a *gorm.DB chain has built so far
NewQuery ==
    [preloads |-> <<>>, order |-> "none", limit |-> 0, offset |-> 0,
     cond |-> "", args |-> <<>>, pk |-> NilId]

Preload(query, name) == [query EXCEPT !.preloads = Append(@, name)]
\* a later Limit replaces the limit; a later non-zero Offset the offset
Limit(query, n) == [query EXCEPT !.limit = n]
Offset(query, n) == [query EXCEPT !.offset = IF n = 0 THEN @ ELSE n]
Order(query, dir) == [query EXCEPT !.order = IF @ = "none" THEN dir ELSE @]
Where(query, cond, args) == [query EXCEPT !.cond = cond, !.args = args]

ApplyOption(query, m) ==
    IF m.kind = "limit" THEN Limit(query, m.n)
    ELSE IF m.kind = "offset" THEN Offset(query, m.n)
    ELSE Order(query, "desc")

RECURSIVE Apply(_, _)
Apply(query, ms) ==
    IF ms = <<>> THEN query ELSE Apply(ApplyOption(query, Head(ms)), Tail(ms))

RECURSIVE ApplyPreloads(_, _)
ApplyPreloads(query, ps) ==
    IF ps = <<>> THEN query ELSE ApplyPreloads(Preload(query, Head(ps)), Tail(ps))

applyQueryOptions(query, opts) ==
    IF opts.isNil THEN query
    ELSE LET q1 == ApplyPreloads(query, opts.Preloads)
             q2 == IF Len(opts.Opts) > 0 THEN Apply(q1, opts.Opts) ELSE q1
         IN  IF opts.Condition # "" THEN Where(q2, opts.Condition, opts.Args)
             ELSE q2

\* ------------------------------------------------------------------- state
VARIABLES base, overlay, txOpen, nextId, repos, last

vars == <<base, overlay, txOpen, nextId, repos, last>>

RepoIds == {"r1", "r2", "r3"}
Originals == {"r1", "r2"}
NoRepo == [DB |-> "none", ErrorCode |-> 0]
GenericRepo(db, code) == [DB |-> db, ErrorCode |-> code]
NewGenericRepo(db) == GenericRepo(db, ErrNotFoundCode)

Row(id, val) == [id |-> id, val |-> val]
NoRow == Row(0, "")

\* the rows a handle sees: the pool sees committed rows, the transaction its
\* own uncommitted writes over them
View(h) ==
    IF h = "db" THEN base
    ELSE [i \in Ids |->
            IF overlay[i] = Clean THEN base[i]
            ELSE IF overlay[i] = Tomb THEN Absent ELSE overlay[i]]

\* ---------------------------------------------------------- query execution
Matching(view, q) ==
    {i \in Ids : /\ view[i] # Absent
                 /\ (q.cond = "" \/ view[i] = q.args[1])
                 /\ (q.pk = NilId \/ i = q.pk)}

RECURSIVE Ascending(_)
Ascending(S) ==
    IF S = {} THEN <<>>
    ELSE LET m == CHOOSE x \in S : \A y \in S : x <= y
         IN  <<m>> \o Ascending(S \ {m})

RECURSIVE Reverse(_)
Reverse(s) == IF s = <<>> THEN <<>> ELSE Append(Reverse(Tail(s)), Head(s))

Paged(s, q) ==
    LET from == q.offset + 1
        upto == IF q.limit = 0 THEN Len(s)
                ELSE IF q.offset + q.limit < Len(s) THEN q.offset + q.limit
                ELSE Len(s)
    IN  SubSeq(s, from, upto)

\* SELECT ... : the matching rows, ordered, then cut by OFFSET and LIMIT
Find(view, q) ==
    LET ids == Ascending(Matching(view, q))
        ord == IF q.order = "desc" THEN Reverse(ids) ELSE ids
        cut == Paged(ord, q)
    IN  [k \in 1..Len(cut) |-> Row(cut[k], view[cut[k]])]

\* First(&entity, id): primary-key condition, ORDER BY pk, LIMIT 1
FirstIgnoringId(query, id) == Order(Limit(query, 1), "asc")
First(query, id) == Order(Limit([query EXCEPT !.pk = id], 1), "asc")

\* SELECT count(*): one aggregate row, which an OFFSET skips
CountRows(view, q) ==
    IF q.offset > 0 THEN 0 ELSE Cardinality(Matching(view, q))

\* ---------------------------------------------------------------- last call
Call ==
    [op |-> "init", repo |-> "r1", id |-> NilId, entity |-> NoRow,
     opts |-> NilOpts, page |-> 0, pageSize |-> 0, fault |-> "none",
     q |-> NewQuery, reached |-> FALSE, raw |-> Nil, err |-> Nil,
     out |-> NoRow, rows |-> <<>>, n |-> 0, created |-> {}, outcome |-> "",
     fnErr |-> Nil, after |-> [what |-> "other", row |-> NoRow]]

Init ==
    /\ base = [i \in Ids |-> Absent]
    /\ overlay = [i \in Ids |-> Clean]
    /\ txOpen = FALSE
    /\ nextId = 1
    /\ repos = [r \in RepoIds |->
                  IF r = "r1" THEN NewGenericRepo("db")
                  ELSE IF r = "r2" THEN GenericRepo("db", CustomCode)
                  ELSE NoRepo]
    /\ last = Call

Live(r) == repos[r].DB = "db" \/ (repos[r].DB = "tx" /\ txOpen)

\* a write through the pool waits for the transaction's lock on the same row
Blocked(h, i) == h = "db" /\ txOpen /\ overlay[i] # Clean

\* the row i of handle h's table becomes val (Absent: the row is removed)
Put(h, i, val) ==
    IF h = "db"
    THEN /\ base' = [base EXCEPT ![i] = val]
         /\ overlay' = overlay
    ELSE /\ overlay' = [overlay EXCEPT ![i] = IF val = Absent THEN Tomb ELSE val]
         /\ base' = base

Bump(id) == IF id >= nextId THEN id + 1 ELSE nextId

\* ------------------------------------------------------------------ Create
\* gorm's Create writes the generated primary key back into *entity
AssignId(e, id) == [e EXCEPT !.id = id]

Insert(r, e, op) ==
    LET h == repos[r].DB
        id == IF e.id = 0 THEN nextId ELSE e.id
    IN  /\ e.id = 0 => nextId <= MaxId
        /\ ~Blocked(h, id)
        /\ IF View(h)[id] # Absent
           THEN /\ UNCHANGED <<base, overlay, nextId>>
                /\ last' = [Call EXCEPT !.op = op, !.repo = r, !.entity = e,
                                        !.reached = TRUE,
                                        !.raw = ErrDuplicatedKey,
                                        !.err = ErrDuplicatedKey, !.out = e]
           ELSE /\ Put(h, id, e.val)
                /\ nextId' = Bump(id)
                /\ last' = [Call EXCEPT !.op = op, !.repo = r, !.entity = e,
                                        !.reached = TRUE,
                                        !.out = AssignId(e, id), !.n = 1]

Create(r, e) ==
    /\ Live(r)
    /\ Insert(r, e, "Create")
    /\ UNCHANGED <<txOpen, repos>>

\* ------------------------------------------------------------------ Update
\* gorm's Save: insert when the primary key is zero, else update every
\* column and insert when no row has that key
Update(r, e) ==
    /\ Live(r)
    /\ IF e.id = 0
       THEN Insert(r, e, "Update")
       ELSE LET h == repos[r].DB
            IN  /\ ~Blocked(h, e.id)
                /\ Put(h, e.id, e.val)
                /\ nextId' = Bump(e.id)
                /\ last' = [Call EXCEPT !.op = "Update", !.repo = r,
                                        !.entity = e, !.reached = TRUE,
                                        !.out = e, !.n = 1]
    /\ UNCHANGED <<txOpen, repos>>

\* ------------------------------------------------------------------ Delete
\* the error of DELETE ... WHERE pk = id after it touched n rows
DeleteErrorMissing(n) == IF n = 0 THEN ErrRecordNotFound ELSE Nil
DeleteError(n) == Nil

Delete(r, id) ==
    /\ Live(r)
    /\ LET h == repos[r].DB
           n == IF View(h)[id] # Absent THEN 1 ELSE 0
       IN  /\ ~Blocked(h, id)
           /\ IF n = 1 THEN Put(h, id, Absent) ELSE UNCHANGED <<base, overlay>>
           /\ last' = [Call EXCEPT !.op = "Delete", !.repo = r, !.id = id,
                                   !.reached = TRUE, !.n = n,
                                   !.raw = DeleteError(n),
                                   !.err = DeleteError(n)]
    /\ UNCHANGED <<txOpen, nextId, repos>>

\* --------------------------------------------------------------------- Get
\* which of Get's three branches runs
GetBranchAnyOptions(id, opts) ==
    IF id # NilId THEN "id" ELSE IF ~opts.isNil THEN "cond" ELSE "empty"
GetBranch(id, opts) ==
    IF id # NilId THEN "id"
    ELSE IF ~opts.isNil /\ opts.Condition # "" THEN "cond"
    ELSE "empty"

\* what First leaves in .Error
FirstError(view, q, fault) ==
    IF fault # "none" THEN ErrConn
    ELSE IF Find(view, q) = <<>> THEN ErrRecordNotFound
    ELSE Nil

\* Get's translation of the store's error
ClassifyAll(err) ==
    IF err # Nil THEN Wrap(ErrRecordNotExistNew, err) ELSE Nil
Classify(err) ==
    IF err # Nil
    THEN IF err = ErrRecordNotFound
         THEN Wrap(ErrRecordNotExistNew, err)
         ELSE err
    ELSE Nil

\* history: what the call just before this Get did to the same row through
\* the same handle (or, for a rolled-back transaction, to a row it created)
Preceding(r, id) ==
    IF /\ last.op = "Create" /\ last.err = Nil
       /\ repos[last.repo].DB = repos[r].DB /\ last.out.id = id
    THEN [what |-> "created", row |-> last.out]
    ELSE IF /\ last.op = "Delete" /\ last.err = Nil /\ last.n = 1
            /\ repos[last.repo].DB = repos[r].DB /\ last.id = id
    THEN [what |-> "deleted", row |-> NoRow]
    ELSE IF /\ last.op = "Transaction" /\ last.outcome = "rollback"
            /\ id \in last.created
    THEN [what |-> "rolledback", row |-> NoRow]
    ELSE [what |-> "other", row |-> NoRow]

Get(r, id, opts, fault) ==
    /\ Live(r)
    /\ LET view == View(repos[r].DB)
           query == applyQueryOptions(NewQuery, opts)
           branch == GetBranch(id, opts)
           q == First(query, id)
           raw == FirstError(view, q, fault)
           this == [Call EXCEPT !.op = "Get", !.repo = r, !.id = id,
                                !.opts = opts, !.fault = fault,
                                !.after = Preceding(r, id)]
       IN  IF branch = "empty"
           THEN last' = [this EXCEPT !.q = query, !.err = ErrQueryParamEmptyNew]
           ELSE last' = [this EXCEPT !.q = q, !.reached = TRUE, !.raw = raw,
                                     !.err = Classify(raw),
                                     !.out = IF raw = Nil THEN Find(view, q)[1]
                                             ELSE NoRow]
    /\ UNCHANGED <<base, overlay, txOpen, nextId, repos>>

\* -------------------------------------------------------------------- List
ListQuery(page, pageSize, opts) ==
    applyQueryOptions(
        Limit(Offset(NewQuery, (page - 1) * pageSize), pageSize), opts)

List(r, page, pageSize, opts) ==
    /\ Live(r)
    /\ LET q == ListQuery(page, pageSize, opts)
       IN  last' = [Call EXCEPT !.op = "List", !.repo = r, !.opts = opts,
                                !.page = page, !.pageSize = pageSize,
                                !.q = q, !.reached = TRUE,
                                !.rows = Find(View(repos[r].DB), q)]
    /\ UNCHANGED <<base, overlay, txOpen, nextId, repos>>

\* ------------------------------------------------------------------- Count
CountQuery(opts) == applyQueryOptions(NewQuery, opts)

Count(r, opts) ==
    /\ Live(r)
    /\ LET q == CountQuery(opts)
       IN  last' = [Call EXCEPT !.op = "Count", !.repo = r, !.opts = opts,
                                !.q = q, !.reached = TRUE,
                                !.n = CountRows(View(repos[r].DB), q)]
    /\ UNCHANGED <<base, overlay, txOpen, nextId, repos>>

\* ------------------------------------------------------------------ WithTx
\* the repositories after r.WithTx(tx); the new one is kept in slot r3
WithTxInPlace(r, tx) ==
    [[repos EXCEPT ![r].DB = tx]
        EXCEPT !["r3"] = GenericRepo(tx, repos[r].ErrorCode)]
WithTxRepos(r, tx) ==
    [repos EXCEPT !["r3"] = GenericRepo(tx, repos[r].ErrorCode)]

WithTx(r, tx) ==
    /\ Live(r)
    /\ txOpen
    /\ repos' = WithTxRepos(r, tx)
    /\ last' = [Call EXCEPT !.op = "WithTx", !.repo = r]
    /\ UNCHANGED <<base, overlay, txOpen, nextId>>

\* ------------------------------------------------------------- Transaction
\* gorm's Transaction: Begin, fn(tx), then Commit when fn returned nil and
\* Rollback otherwise
TxOutcomeAlwaysCommit(fnErr) == "commit"
TxOutcome(fnErr) == IF fnErr = Nil THEN "commit" ELSE "rollback"

TransactionBegin(r) ==
    /\ Live(r)
    /\ repos[r].DB = "db"
    /\ ~txOpen
    /\ txOpen' = TRUE
    /\ last' = [Call EXCEPT !.op = "Begin", !.repo = r]
    /\ UNCHANGED <<base, overlay, nextId, repos>>

\* fn returns fnErr and Transaction returns
TransactionEnd(fnErr) ==
    /\ txOpen
    /\ base' = IF TxOutcome(fnErr) = "commit" THEN View("tx") ELSE base
    /\ overlay' = [i \in Ids |-> Clean]
    /\ txOpen' = FALSE
    /\ repos' = [r \in RepoIds |->
                   IF repos[r].DB = "tx" THEN NoRepo ELSE repos[r]]
    /\ last' = [Call EXCEPT !.op = "Transaction", !.fnErr = fnErr,
                            !.err = fnErr,
                            !.outcome = TxOutcome(fnErr),
                            !.created = {i \in Ids : /\ overlay[i] \in Vals
                                                     /\ base[i] = Absent}]
    /\ UNCHANGED nextId

\* ------------------------------------------------------------ specification
Entities == {Row(i, v) : i \in 0..MaxId, v \in Vals}
GetIds == {NilId} \cup Ids
Faults == {"none", "conn"}
Pages == 1..MaxPage
PageSizes == 1..MaxPageSize
FnErrs == {Nil, ErrApp}

Next ==
    \/ \E r \in RepoIds, e \in Entities : Create(r, e)
    \/ \E r \in RepoIds, e \in Entities : Update(r, e)
    \/ \E r \in RepoIds, id \in Ids : Delete(r, id)
    \/ \E r \in RepoIds, id \in Ids : Get(r, id, NilOpts, "none")
    \/ \E r \in RepoIds : List(r, 1, MaxPageSize, NilOpts)
    \/ \E r \in RepoIds : Count(r, NilOpts)
    \/ \E r \in RepoIds : WithTx(r, "tx")
    \/ \E r \in RepoIds : TransactionBegin(r)
    \/ \E e \in FnErrs \cup {last.err} : TransactionEnd(e)

Spec == Init /\ [][Next]_vars

\* The read operations over every table content and every option value.
InitQuery ==
    /\ base \in [Ids -> Vals \cup {Absent}]
    /\ overlay = [i \in Ids |-> Clean]
    /\ txOpen = FALSE
    /\ nextId = MaxId + 1
    /\ repos = [r \in RepoIds |->
                  IF r = "r1" THEN NewGenericRepo("db")
                  ELSE IF r = "r2" THEN GenericRepo("db", CustomCode)
                  ELSE NoRepo]
    /\ last = Call

\* one read call on the table content chosen by InitQuery
Idle == last.op = "init"

NextQuery ==
    \/ \E r \in Originals, id \in GetIds, o \in AllOpts, f \in Faults :
          Idle /\ Get(r, id, o, f)
    \/ \E r \in Originals, p \in Pages, ps \in PageSizes, o \in AllOpts :
          Idle /\ List(r, p, ps, o)
    \/ \E r \in Originals, o \in AllOpts : Idle /\ Count(r, o)

SpecQuery == InitQuery /\ [][NextQuery]_vars

\* ------------------------------------------------------------------ claims
NotFound == Wrap(ErrRecordNotExistNew, ErrRecordNotFound)
LastView == View(repos[last.repo].DB)
PlainGet(c) == c.op = "Get" /\ c.opts = NilOpts /\ c.fault = "none"

\* C1: when Transaction returns, it returns exactly the error fn returned; the
\* transaction's writes reach the committed table if and only if that error
\* is nil; after a rollback the committed table is as it was, no row the
\* transaction created is in it, and a Get of such a row right after the
\* return answers not-found.
C1_TransactionCommitsIffFnSucceeds ==
    [][/\ (txOpen /\ ~txOpen') =>
            /\ last'.op = "Transaction"
            /\ last'.err = last'.fnErr
            /\ (last'.fnErr = Nil) <=> (last'.outcome = "commit")
            /\ last'.outcome = "commit" => base' = View("tx")
            /\ last'.outcome # "commit" =>
                   /\ base' = base
                   /\ \A i \in last'.created : base'[i] = Absent
       /\ (/\ last.op = "Transaction" /\ last.err # Nil
           /\ PlainGet(last') /\ last'.id \in last.created)
              => last'.err = NotFound
      ]_vars

\* a transaction that created a row was rolled back, and the row was then
\* looked up
C1_Witness ==
    /\ PlainGet(last)
    /\ last.after.what = "rolledback"
    /\ last.err = NotFound

\* C2: Get answers the not-found domain error exactly when the store reported
\* its record-not-found sentinel, which is exactly when the executed query
\* matched no row; unwrapping the domain error gives the sentinel; any other
\* store error comes back unchanged.
C2_NotFoundClassification ==
    (last.op = "Get" /\ last.reached) =>
        /\ (last.raw = ErrRecordNotFound) <=>
              (last.err.kind = "errorx" /\ last.err.name = "ErrRecordNotExist")
        /\ (last.raw = ErrRecordNotFound) <=>
              (last.fault = "none" /\ Find(LastView, last.q) = <<>>)
        /\ last.raw = ErrRecordNotFound => Unwrap(last.err) = ErrRecordNotFound
        /\ last.raw # ErrRecordNotFound => last.err = last.raw

\* a Get by id that matched no row
C2_Witness ==
    /\ last.op = "Get" /\ last.reached /\ last.id # NilId
    /\ LastView[last.id] = Absent
    /\ last.raw = ErrRecordNotFound
    /\ Unwrap(last.err) = ErrRecordNotFound

\* C3: a Get with a nil id and no usable condition (nil options, or an empty
\* Condition whatever the other fields hold) answers the
\* empty-query-parameter error and executes nothing on the store.
C3_EmptyQueryParameter ==
    (last.op = "Get" /\ last.id = NilId
        /\ (last.opts.isNil \/ last.opts.Condition = "")) =>
        /\ last.err = ErrQueryParamEmptyNew
        /\ ~last.reached

\* a Get with nil id, empty Condition, and Args, Opts and Preloads all set
C3_Witness ==
    /\ last.op = "Get" /\ last.id = NilId
    /\ ~last.opts.isNil /\ last.opts.Condition = ""
    /\ last.opts.Args # <<>> /\ last.opts.Opts # <<>>
    /\ last.opts.Preloads # <<>>
    /\ last.err = ErrQueryParamEmptyNew

\* C4 (as claimed): a Get with an id answers as the same Get would with
\* Condition and Args removed from its options: the condition plays no part,
\* preloads and modifiers still do.
C4_IdIgnoresCondition ==
    (last.op = "Get" /\ last.id # NilId /\ last.fault = "none") =>
        LET bare == [last.opts EXCEPT !.Condition = "", !.Args = <<>>]
            q0 == First(applyQueryOptions(NewQuery, bare), last.id)
        IN  /\ last.q.preloads = q0.preloads
            /\ last.q.offset = q0.offset
            /\ last.raw = FirstError(LastView, q0, "none")
            /\ last.raw = Nil => last.out = Find(LastView, q0)[1]

\* C5: no step changes an original repository (handle or code); the
\* repository WithTx returns is bound to the transaction and carries the
\* receiver's code; a write through an original repository lands in the
\* committed table and never in the open transaction.
C5_WithTxLeavesReceiver ==
    [][/\ \A r \in Originals : repos'[r] = repos[r]
       /\ last'.op = "WithTx" =>
              /\ repos'["r3"].DB = "tx"
              /\ repos'["r3"].ErrorCode = repos[last'.repo].ErrorCode
       /\ (last'.op \in {"Create", "Update", "Delete"}
              /\ last'.repo \in Originals) =>
              /\ overlay' = overlay
              /\ (last'.op # "Delete" /\ last'.err = Nil) =>
                     base'[last'.out.id] = last'.out.val
      ]_vars

\* WithTx was called on an original repository with a non-default code
C5_Witness ==
    /\ last.op = "WithTx" /\ last.repo = "r2"
    /\ repos["r3"] = GenericRepo("tx", CustomCode)
    /\ repos["r2"] = GenericRepo("db", CustomCode)

\* C6 (as claimed): List answers at most pageSize rows, and they are the
\* rows that follow one another from offset (page-1)*pageSize on in the
\* option-qualified result (the rows the options' condition keeps, in the
\* options' order); a page shares no row with the page after it.
C6_ListPaging ==
    (last.op = "List" /\ last.page >= 1 /\ last.pageSize >= 1) =>
        LET all == Find(LastView,
                        [applyQueryOptions(NewQuery, last.opts)
                            EXCEPT !.limit = 0, !.offset = 0])
            off == (last.page - 1) * last.pageSize
            next == Find(LastView,
                         ListQuery(last.page + 1, last.pageSize, last.opts))
        IN  /\ Len(last.rows) <= last.pageSize
            /\ off + Len(last.rows) <= Len(all)
            /\ \A k \in 1..Len(last.rows) : last.rows[k] = all[off + k]
            /\ \A i \in 1..Len(last.rows), j \in 1..Len(next) :
                   last.rows[i].id # next[j].id

\* C7 (as claimed): Count answers the number of rows List(1, MAX, opts)
\* answers on the same table, MAX being a page that holds every row, and
\* the same number with the preloads removed from opts.
C7_CountEqualsList ==
    last.op = "Count" =>
        /\ last.n = Len(Find(LastView, ListQuery(1, MaxId, last.opts)))
        /\ last.n = CountRows(LastView,
                        CountQuery([last.opts EXCEPT !.Preloads = <<>>]))

\* C8: a Get by id with nil options right after a successful Create through
\* the same handle answers, without error, the entity as Create left it:
\* the caller's value with the primary key set (the generated one when the
\* caller gave none).
C8_CreateGetRoundTrip ==
    [][(/\ last.op = "Create" /\ last.err = Nil
        /\ PlainGet(last')
        /\ repos[last'.repo].DB = repos[last.repo].DB
        /\ last'.id = last.out.id) =>
            /\ last'.err = Nil
            /\ last'.out = last.out
            /\ last'.out.val = last.entity.val
            /\ last.entity.id # 0 => last'.out.id = last.entity.id
      ]_vars

\* an entity created without a key was read back by its generated key
C8_Witness ==
    /\ PlainGet(last)
    /\ last.after.what = "created"
    /\ last.err = Nil
    /\ last.out = last.after.row

\* C9: Delete of an id with no row answers no error and changes no table;
\* any Delete leaves every other row as it was; a Get by id right after a
\* Delete that removed the row, through the same handle, answers not-found.
C9_DeleteIdempotent ==
    [][/\ last'.op = "Delete" =>
            LET h == repos[last'.repo].DB
            IN  /\ View(h)[last'.id] = Absent =>
                      /\ last'.err = Nil
                      /\ base' = base /\ overlay' = overlay
                /\ \A j \in Ids \ {last'.id} :
                      /\ base'[j] = base[j] /\ overlay'[j] = overlay[j]
       /\ (/\ last.op = "Delete" /\ last.err = Nil /\ last.n = 1
           /\ PlainGet(last')
           /\ repos[last'.repo].DB = repos[last.repo].DB
           /\ last'.id = last.id) => last'.err = NotFound
      ]_vars

\* a Delete found no row while another row was stored
C9_Witness ==
    /\ last.op = "Delete" /\ last.n = 0 /\ last.err = Nil
    /\ \E j \in Ids \ {last.id} : LastView[j] # Absent

\* C10 (as claimed): the not-found error of Get carries the ErrorCode of
\* the repository that served the call.
C10_NotFoundCarriesRepoCode ==
    (last.op = "Get" /\ last.raw = ErrRecordNotFound) =>
        last.err.code = repos[last.repo].ErrorCode

====
